---- MODULE Spec2Model ----
(***************************************************************************)
(* Widgets of the Orange canvas as state machines: the input handlers, the *)
(* deferred commit, the cancellable background task (start / cancel /      *)
(* on_partial_result / on_done / on_exception) and the worker functions.   *)
(***************************************************************************)
EXTENDS Integers, Sequences, FiniteSets, TLC

(* ------------------------------ bounds --------------------------------- *)
\* tasks one widget starts in a run of the model
MaxTasks == 2
\* datasets a widget receives in a run of the model
MaxInputs == 2
\* progress callbacks the learner / the metric makes while it computes
MaxChunks == 1
\* FreeViz projector objects init_projection creates in a run of the model
MaxProj == 2
\* anchor configurations the optimization can move through (0 is the start)
MaxAnchor == 1
\* partial results queued for the GUI thread and not handled yet
MaxQueue == 1
\* entries in the four lists of OWSelectAttributes taken together
MaxListed == 3
\* the largest number of folds of OWDataSampler in the model (the spin: 100)
MaxFolds == 3
\* the largest random_seed of OWAdaBoost in the model (the spin: 2^31 - 1)
MaxSeed == 3
\* the tables OWDataInfo receives
MaxTables == 4

None == 0

VARIABLES
    kind,      \* which widget this is
    data,      \* self.data: None or the id of the dataset
    template,  \* OWTransform.template_data, OWNeighbors.reference: None or present (1)
    nIn,       \* input signals handled so far
    auto,      \* the auto-commit setting of the widget
    dirty,     \* gui.auto_commit: a deferred commit is waiting for Apply
    task,      \* ConcurrentMixin.__task: the current task, None when idle
    tasks,     \* every task ever started: future, TaskState and worker position
    calls,     \* per task, how often on_done / on_exception were called
    out,       \* the last value sent on the outputs
    deleted,   \* onDeleteWidget has run
    proj,      \* the FreeViz projector objects: gravity, initial, components_
    wproj,     \* OWFreeViz.projector: None or a projector object
    wprojection, \* OWFreeViz.projection
    optimized, \* OWFreeViz.__optimized
    balance,   \* OWFreeViz.balance (the gravity check box)
    setting,   \* the value of a control whose callback calls commit.deferred
    ran,       \* how often the body of commit ran in the last handler
    busy,      \* the GUI thread is inside OWManifoldLearning.commit
    waiting,   \* an input or a change was posted while the GUI thread was busy
    lists,     \* OWSelectAttributes: available_attrs, used_attrs, class_attrs, meta_attrs
    features,  \* OWSelectAttributes.features: None or the input features
    use_input_features,  \* OWSelectAttributes.use_input_features
    ignore_new_features, \* OWSelectAttributes.ignore_new_features
    contexts,  \* the stored contexts: per domain, its domain_role_hints
    left,      \* per domain, the lists as they were when its data was replaced
    sampling_type,      \* OWDataSampler.sampling_type
    number_of_folds,    \* OWDataSampler.number_of_folds
    selectedFold,       \* OWDataSampler.selectedFold
    use_seed,           \* OWDataSampler.use_seed
    compatibility_mode, \* OWDataSampler.compatibility_mode (schema-only setting)
    indices,            \* OWDataSampler.indices: None, a pair or a tuple of folds
    data_sample,        \* the last value sent on OWDataSampler.Outputs.data_sample
    remaining_data,     \* the last value sent on OWDataSampler.Outputs.remaining_data
    committed,          \* how the last call of OWDataSampler.commit ended
    metric_id,          \* OWDistances.metric_id
    axis,               \* OWDistances.axis: distances between rows (0) or columns (1)
    started,            \* OWDistances: the arguments of the last start(DistanceRunner.run, ...)
    base_estimator,     \* OWAdaBoost.base_estimator
    no_weight_support,  \* OWAdaBoost.Error.no_weight_support is shown
    use_random_seed,    \* OWAdaBoost.use_random_seed
    random_seed,        \* OWAdaBoost.random_seed
    algorithm_index,    \* OWAdaBoost.algorithm_index
    loss_index,         \* OWAdaBoost.loss_index
    learner,            \* OWAdaBoost.learner: what create_learner returned last
    table,              \* OWDataInfo: the table last received on the input
    nTables,            \* OWDataInfo: tables received so far
    data_desc,          \* OWDataInfo.data_desc
    data_attrs,         \* OWDataInfo.data_attrs
    same_dict,          \* OWDataInfo: data_desc and data_attrs are one dict object
    description,        \* OWDataInfo.description: the text of the label
    threads             \* OWDataInfo: the threads running set_exact_length

\* the widget's own fields
wVars == <<kind, data, template, nIn, auto, dirty, out, deleted>>
\* the fields of the mixin
mVars == <<task, tasks, calls>>
\* the fields of OWFreeViz
fVars == <<proj, wproj, wprojection, optimized, balance>>
\* the fields of the widgets that commit in the GUI thread
sVars == <<setting, ran, busy, waiting>>
\* the fields of OWSelectAttributes and its context handler
cVars == <<lists, features, use_input_features, ignore_new_features, contexts, left>>
\* the fields of OWDataSampler
dVars == <<sampling_type, number_of_folds, selectedFold, use_seed, compatibility_mode,
           indices, data_sample, remaining_data, committed>>
\* the settings of OWDistances and what it started its task with
gVars == <<metric_id, axis, started>>
\* the fields of the widgets added to the model after the first ones
\* the settings, the base learner and the learner of OWAdaBoost
aVars == <<base_estimator, no_weight_support, use_random_seed, random_seed,
           algorithm_index, loss_index, learner>>
\* the fields of OWDataInfo, its input and its threads
iVars == <<table, nTables, data_desc, data_attrs, same_dict, description, threads>>
eVars == <<dVars, gVars, aVars, iVars>>
xVars == <<sVars, cVars, eVars>>
vars == <<wVars, mVars, fVars, xVars>>

TaskIds == 1..MaxTasks
ProjIds == 1..MaxProj
Anchors == 0..MaxAnchor

\* a projector object that was not created yet
NoProjector == [made |-> FALSE, gravity |-> None, initial |-> -1, comps |-> -1]
\* no projection (None)
NoProjection == [live |-> FALSE, own |-> "none", val |-> -1]
TaskKinds == {"outliers", "distances", "transform"}

(* ------------------ ConcurrentWidgetMixin and TaskState ----------------- *)
\* a task that was not started yet
NoTask ==
    [st |-> "idle", intr |-> FALSE, conn |-> FALSE, arg |-> None, tmpl |-> None,
     inSeq |-> 0, work |-> 0, outcome |-> "none",
     pj |-> None, res |-> NoProjection, linit |-> -1,
     pq |-> << >>, unpub |-> FALSE, late |-> 0]

\* the next unused task id, None when the model's bound is reached
NextId(ts) ==
    IF \E t \in TaskIds : ts[t].st = "idle"
    THEN CHOOSE t \in TaskIds : ts[t].st = "idle" /\ \A u \in TaskIds : u < t => ts[u].st # "idle"
    ELSE None

\* ConcurrentMixin.__cancel_task: request interruption, cancel the future
\* (which succeeds only while it is still queued) and disconnect the signals
cancel_task(ts, cur) ==
    IF cur = None THEN ts
    ELSE [ts EXCEPT ![cur].intr = TRUE,
                    ![cur].conn = FALSE,
                    ![cur].st = IF @ = "pending" THEN "cancelled" ELSE @,
                    ![cur].pq = << >>]

\* ConcurrentMixin.start: cancel the current task, submit and connect a new one
start_task(ts, cur, arg, tmpl, seq) ==
    [cancel_task(ts, cur) EXCEPT ![NextId(ts)] =
        [NoTask EXCEPT !.st = "pending", !.conn = TRUE, !.arg = arg,
                       !.tmpl = tmpl, !.inSeq = seq]]

\* the worker function returns (outcome "ok") or raises (outcome "exc")
Finish(r, how) == [r EXCEPT !.st = "done", !.outcome = how]

\* ConcurrentMixin._on_task_done may run for t: the future is done, the
\* watcher's signal is still connected and was not delivered yet
Deliverable(t) ==
    /\ tasks[t].st = "done"
    /\ tasks[t].conn
    /\ calls[t].done + calls[t].exc = 0
    /\ tasks[t].pq = << >>

(* ----------------------------- gui.deferred ----------------------------- *)
\* commit.deferred(): commit at once with auto-commit on, else wait for Apply
DeferredCommits == auto

(* ------------------------ OWDistances: the metrics ---------------------- *)
\* Euclidean, EuclideanNormalized, ..., Jaccard = range(12)
Euclidean == 0

EuclideanNormalized == 1

Manhattan == 2

ManhattanNormalized == 3

Cosine == 4

Mahalanobis == 5

Hamming == 6

Pearson == 7

PearsonAbsolute == 8

Spearman == 9

SpearmanAbsolute == 10

Jaccard == 11

MetricIds == Euclidean..Jaccard

\* the largest size Mahalanobis is computed for
MahalanobisLimit == 1000

\* MetricDef(id, name, tooltip, metric, normalize=False)
MetricDef(metric, normalize) == [metric |-> metric, normalize |-> normalize]

\* MetricDefs: per metric id, the class in Orange.distance and normalize
MetricDefs ==
    [id \in MetricIds |->
        CASE id = EuclideanNormalized -> MetricDef("Euclidean", TRUE)
          [] id = Euclidean -> MetricDef("Euclidean", FALSE)
          [] id = ManhattanNormalized -> MetricDef("Manhattan", TRUE)
          [] id = Manhattan -> MetricDef("Manhattan", FALSE)
          [] id = Mahalanobis -> MetricDef("Mahalanobis", FALSE)
          [] id = Hamming -> MetricDef("Hamming", FALSE)
          [] id = Cosine -> MetricDef("Cosine", FALSE)
          [] id = Pearson -> MetricDef("PearsonR", FALSE)
          [] id = PearsonAbsolute -> MetricDef("PearsonRAbsolute", FALSE)
          [] id = Spearman -> MetricDef("PearsonR", FALSE)
          [] id = SpearmanAbsolute -> MetricDef("SpearmanRAbsolute", FALSE)
          [] OTHER -> MetricDef("Jaccard", FALSE)]

\* len(data) of the datasets in the model: dataset 2 has more rows than
\* Mahalanobis handles
n_rows(d) == IF d = 2 THEN MahalanobisLimit + 1 ELSE 2

\* len(data.domain.attributes): dataset 3 has more columns than Mahalanobis
\* handles
n_columns(d) == IF d = 3 THEN MahalanobisLimit + 1 ELSE 2

\* compute_distances._check_tractability: the error it shows, "" for none
check_tractability(d, metric, ax) ==
    IF metric = "Mahalanobis"
    THEN IF ax = 0
         THEN IF n_rows(d) > MahalanobisLimit THEN "rows" ELSE ""
         ELSE IF n_columns(d) > MahalanobisLimit THEN "columns" ELSE ""
    ELSE ""

\* nothing was started yet
NotStarted ==
    [input |-> None, data |-> None, id |-> -1, metric |-> "", normalize |-> FALSE,
     axis |-> 0, error |-> ""]

\* OWDistances.compute_distances: the arguments of start(DistanceRunner.run,
\* data, metric, metric_def.normalize, self.axis); data is None when a check
\* fails (the data of the model are dense, numeric and complete, so of the
\* five checks only _check_tractability can fail)
compute_distances(d, id, ax) ==
    LET metric_def == MetricDefs[id]
        err == IF d = None THEN "" ELSE check_tractability(d, metric_def.metric, ax)
    IN  [input |-> d, data |-> IF err = "" THEN d ELSE None, id |-> id,
         metric |-> metric_def.metric, normalize |-> metric_def.normalize,
         axis |-> ax, error |-> err]

(* --------------------------- worker functions --------------------------- *)
\* owoutliers.run up to its first callback: no data, no work
run_outliers(r) ==
    IF r.arg = None THEN Finish(r, "ok") ELSE [r EXCEPT !.st = "check"]

\* variant: a callback that only reports progress
outliers_callback_progress(r) ==
    IF r.work < MaxChunks THEN [r EXCEPT !.st = "compute"]
    ELSE [r EXCEPT !.st = "done", !.outcome = "ok"]

\* owoutliers.run.callback: raise when interruption was requested; after the
\* last callback (callback(1)) the results are returned
outliers_callback(r) ==
    IF r.intr THEN Finish(r, "exc")
    ELSE IF r.work < MaxChunks THEN [r EXCEPT !.st = "compute"]
    ELSE Finish(r, "ok")

\* DistanceRunner.run up to the metric's first computation
run_distances(r) ==
    IF r.arg = None THEN Finish(r, "ok") ELSE [r EXCEPT !.st = "compute"]

\* DistanceRunner.run.callback
distances_callback(r) ==
    IF r.intr THEN Finish(r, "exc")
    ELSE IF r.work < MaxChunks THEN [r EXCEPT !.st = "compute"]
    ELSE Finish(r, "ok")

\* TransformRunner.run: nothing to do without data or template
run_transform(r) ==
    IF r.arg = None \/ r.tmpl = None THEN Finish(r, "ok")
    ELSE [r EXCEPT !.st = "compute"]

\* one piece of the computation: fit / predict, a block of the distance
\* matrix, data.transform; it may raise (ValueError, MemoryError)
compute_chunk(k, r, raises) ==
    IF raises THEN Finish(r, "exc")
    ELSE IF k = "transform" THEN Finish([r EXCEPT !.work = @ + 1], "ok")
    ELSE [r EXCEPT !.work = @ + 1, !.st = "check"]

\* the executor's thread takes the queued task and enters the worker function
WorkerBegin(t) ==
    /\ kind \in TaskKinds
    /\ tasks[t].st = "pending"
    /\ tasks' = [tasks EXCEPT ![t] =
            CASE kind = "outliers" -> run_outliers(@)
              [] kind = "distances" -> run_distances(@)
              [] OTHER -> run_transform(@)]
    /\ UNCHANGED <<wVars, task, calls, fVars>>
    /\ UNCHANGED xVars

WorkerCompute(t) ==
    /\ kind \in TaskKinds
    /\ tasks[t].st = "compute"
    /\ \E raises \in BOOLEAN :
         tasks' = [tasks EXCEPT ![t] = compute_chunk(kind, @, raises)]
    /\ UNCHANGED <<wVars, task, calls, fVars>>
    /\ UNCHANGED xVars

WorkerCallback(t) ==
    /\ kind \in {"outliers", "distances"}
    /\ tasks[t].st = "check"
    /\ tasks' = [tasks EXCEPT ![t] =
            IF kind = "outliers" THEN outliers_callback(@) ELSE distances_callback(@)]
    /\ UNCHANGED <<wVars, task, calls, fVars>>
    /\ UNCHANGED xVars

(* ------------------------- the widgets' handlers ------------------------ *)
\* what a worker function returns for its arguments: None without data
\* (or template), else the result computed from that dataset
ResultOf(r) == IF r.arg = None \/ (kind = "transform" /\ r.tmpl = None) THEN None ELSE r.arg

Sent(val, t) == [val |-> val, fromIn |-> tasks[t].inSeq, atIn |-> nIn, set |-> setting]

\* OWOutliers.commit / OWDistances.commit -> compute_distances: start the task
\* (the checks of compute_distances that replace data by None are not modelled)
commit_started(d, n, id, ax) ==
    /\ NextId(tasks) # None
    /\ tasks' = start_task(tasks, task,
                           IF kind = "distances" THEN compute_distances(d, id, ax).data ELSE d,
                           None, n)
    /\ task' = NextId(tasks)
    /\ dirty' = FALSE
    /\ started' = IF kind = "distances" THEN compute_distances(d, id, ax) ELSE started

\* commit with the settings as they are
commit_start(d, n) == commit_started(d, n, metric_id, axis)

\* the fields the handlers of OWOutliers and OWDistances leave alone, other
\* than their own
notDistances == <<sVars, cVars, dVars, aVars, iVars>>

\* variant: the input is stored and nothing else is done
set_data_store_only(d) ==
    /\ kind \in {"outliers", "distances"}
    /\ ~deleted
    /\ nIn < MaxInputs
    /\ nIn' = nIn + 1
    /\ data' = d
    /\ UNCHANGED <<kind, template, auto, dirty, out, deleted, mVars, fVars>>
    /\ UNCHANGED xVars

\* OWOutliers.set_data, OWDistances.set_data: cancel, store, commit.now
set_data(d) ==
    /\ kind \in {"outliers", "distances"}
    /\ ~deleted
    /\ nIn < MaxInputs
    /\ NextId(tasks) # None
    /\ nIn' = nIn + 1
    /\ data' = d
    /\ tasks' = start_task(cancel_task(tasks, task), None,
                           IF kind = "distances"
                           THEN compute_distances(d, metric_id, axis).data ELSE d,
                           None, nIn + 1)
    /\ task' = NextId(tasks)
    /\ dirty' = FALSE
    /\ started' = IF kind = "distances" THEN compute_distances(d, metric_id, axis)
                  ELSE started
    /\ UNCHANGED <<kind, template, auto, out, deleted, calls, fVars>>
    /\ UNCHANGED <<notDistances, metric_id, axis>>

OWOutliers_set_data(d) == kind = "outliers" /\ set_data(d)

OWDistances_set_data(d) == kind = "distances" /\ set_data(d)

\* OWOutliers.__method_changed / param_changed, OWDistances._invalidate:
\* commit.deferred
setting_changed ==
    /\ kind \in {"outliers", "distances"}
    /\ ~deleted
    /\ IF DeferredCommits
       THEN commit_start(data, nIn)
       ELSE dirty' = TRUE /\ UNCHANGED <<task, tasks, started>>
    /\ UNCHANGED <<kind, data, template, nIn, auto, out, deleted, calls, fVars>>
    /\ UNCHANGED <<notDistances, metric_id, axis>>

\* OWDistances._metric_changed: store the id, _invalidate (commit.deferred)
metric_changed(id) ==
    /\ kind = "distances"
    /\ ~deleted
    /\ metric_id' = id
    /\ IF DeferredCommits
       THEN commit_started(data, nIn, id, axis)
       ELSE dirty' = TRUE /\ UNCHANGED <<task, tasks, started>>
    /\ UNCHANGED <<kind, data, template, nIn, auto, out, deleted, calls, fVars>>
    /\ UNCHANGED <<notDistances, axis>>

\* the radio buttons "rows" / "columns": axis is set, _invalidate
axis_changed(ax) ==
    /\ kind = "distances"
    /\ ~deleted
    /\ axis' = ax
    /\ IF DeferredCommits
       THEN commit_started(data, nIn, metric_id, ax)
       ELSE dirty' = TRUE /\ UNCHANGED <<task, tasks, started>>
    /\ UNCHANGED <<kind, data, template, nIn, auto, out, deleted, calls, fVars>>
    /\ UNCHANGED <<notDistances, metric_id>>

\* OWTransform.set_data / set_template_data followed by handleNewSignals ->
\* apply: clear_messages, cancel, start
OWTransform_apply(d, tm) ==
    /\ kind = "transform"
    /\ ~deleted
    /\ nIn < MaxInputs
    /\ NextId(tasks) # None
    /\ nIn' = nIn + 1
    /\ data' = d
    /\ template' = tm
    /\ tasks' = start_task(cancel_task(tasks, task), None, d, tm, nIn + 1)
    /\ task' = NextId(tasks)
    /\ UNCHANGED <<kind, auto, dirty, out, deleted, calls, fVars>>
    /\ UNCHANGED xVars

\* on_done of the three widgets: send the result
on_done(t) ==
    /\ calls' = [calls EXCEPT ![t].done = @ + 1]
    /\ out' = Sent(ResultOf(tasks[t]), t)

\* OWOutliers.on_exception, OWDistances.on_exception: show the error (or
\* re-raise); nothing is sent
on_exception_keep(t) ==
    /\ calls' = [calls EXCEPT ![t].exc = @ + 1]
    /\ out' = out

\* OWTransform.on_exception: show the error and send None
OWTransform_on_exception(t) ==
    /\ calls' = [calls EXCEPT ![t].exc = @ + 1]
    /\ out' = Sent(None, t)

\* ConcurrentMixin._on_task_done in the GUI thread: forget the task, then
\* on_exception(ex) or on_done(result)
TaskDone(t) ==
    /\ kind \in TaskKinds
    /\ Deliverable(t)
    /\ task' = None
    /\ IF tasks[t].outcome = "exc"
       THEN IF kind = "transform" THEN OWTransform_on_exception(t) ELSE on_exception_keep(t)
       ELSE on_done(t)
    /\ UNCHANGED <<kind, data, template, nIn, auto, dirty, deleted, tasks, fVars>>
    /\ UNCHANGED xVars

\* gui.auto_apply: the Apply button commits now
ApplyClicked ==
    /\ kind \in {"outliers", "distances"}
    /\ ~deleted
    /\ commit_start(data, nIn)
    /\ UNCHANGED <<kind, data, template, nIn, auto, out, deleted, calls, fVars>>
    /\ UNCHANGED <<notDistances, metric_id, axis>>

\* gui.auto_apply: the check box; switching it on commits what is waiting
AutoToggled ==
    /\ kind \in {"outliers", "distances"}
    /\ ~deleted
    /\ auto' = ~auto
    /\ IF ~auto /\ dirty
       THEN commit_start(data, nIn)
       ELSE UNCHANGED <<task, tasks, dirty, started>>
    /\ UNCHANGED <<kind, data, template, nIn, out, deleted, calls, fVars>>
    /\ UNCHANGED <<notDistances, metric_id, axis>>

\* variant: the widget is deleted and its task is left alone
onDeleteWidget_no_shutdown ==
    /\ kind \in TaskKinds
    /\ ~deleted
    /\ deleted' = TRUE
    /\ UNCHANGED <<kind, data, template, nIn, auto, dirty, out, mVars, fVars>>
    /\ UNCHANGED xVars

\* onDeleteWidget: shutdown() cancels the task (and waits for the thread)
onDeleteWidget ==
    /\ kind \in TaskKinds
    /\ ~deleted
    /\ deleted' = TRUE
    /\ tasks' = cancel_task(tasks, task)
    /\ task' = None
    /\ UNCHANGED <<kind, data, template, nIn, auto, dirty, out, calls, fVars>>
    /\ UNCHANGED xVars


(* ------------------------------- OWFreeViz ------------------------------ *)
\* FreeViz(scale=False, center=False, initial=anchors, gravity=gravity) with
\* components_ = anchors.T
NewProjector(a, b) ==
    [made |-> TRUE, gravity |-> IF b THEN 1 ELSE None, initial |-> a, comps |-> a]

\* a projector object that nothing refers to any more
Dropped == [made |-> TRUE, gravity |-> None, initial |-> -1, comps |-> -1]

\* the coordinates a projection shows: a FreeVizModel follows the projector
\* it was made from (pid), a copy holds its own
ContentIn(pr, pid, p) == IF p.live THEN pr[pid].comps ELSE p.val

\* FreeVizModel(self.projector, ...): the model init_projection makes
FreeVizModel == [live |-> TRUE, own |-> "widget", val |-> -1]

\* res.projector(data): the model the fit returns to run_freeviz
Projected == [live |-> TRUE, own |-> "task", val |-> -1]

\* variant: the model is handed on as it is, without copy()
projection_inplace(pr, pid, p) == p

\* run_freeviz: res.projection = res.projector(data).copy()
projection_copy(pr, pid, p) == [p EXCEPT !.live = FALSE, !.val = ContentIn(pr, pid, p)]

\* a worker thread is inside run_freeviz with projector pid
Racing(pid) ==
    \E t \in TaskIds : tasks[t].pj = pid /\ tasks[t].st \in {"fit", "publish", "check"}

\* the next unused projector id, None when the model's bound is reached
NextProj ==
    IF \E p \in ProjIds : ~proj[p].made
    THEN CHOOSE p \in ProjIds : ~proj[p].made /\ \A q \in ProjIds : q < p => proj[q].made
    ELSE None

\* the task's thread or its pending on_done still refers to its Result
Holds(r, c) ==
    \/ r.st \in {"pending", "fit", "publish", "check"}
    \/ r.st = "done" /\ r.conn /\ c.done + c.exc = 0

\* the Result of a task that ended and will not be delivered is released
Reap(ts, cs) ==
    [t \in TaskIds |->
        IF ts[t].st = "idle" \/ Holds(ts[t], cs[t]) THEN ts[t]
        ELSE [ts[t] EXCEPT !.pj = None, !.res = NoProjection, !.linit = -1, !.pq = << >>]]

\* a projector that neither the widget nor a Result refers to is released
Collect(pr, wp, ts) ==
    [p \in ProjIds |->
        IF pr[p].made /\ p # wp /\ ~\E t \in TaskIds : ts[t].pj = p
        THEN Dropped ELSE pr[p]]

\* the objects after a handler or a worker step
Store(ts, cs, pr, wp) ==
    /\ tasks' = Reap(ts, cs)
    /\ calls' = cs
    /\ proj' = Collect(pr, wp, Reap(ts, cs))
    /\ wproj' = wp

\* OWFreeViz._run on task list ts with current task cur: nothing without data,
\* else start(run_freeviz, data, self.projector)
run_(d, pid, ts, cur) ==
    IF d = None THEN ts
    ELSE [start_task(ts, cur, d, None, nIn) EXCEPT ![NextId(ts)].pj = pid]

\* the current task after _run
run_task(d, ts, cur) == IF d = None THEN cur ELSE NextId(ts)

\* OWFreeViz.set_data: the base class stores the data and, when the data
\* changed (invalidated), clears the widget: clear() cancels the task and
\* drops projector and projection; then init_projection (which does nothing
\* without data)
OWFreeViz_set_data(d, invalidated, a) ==
    /\ kind = "freeviz"
    /\ ~deleted
    /\ (data = None \/ d = None) => invalidated
    /\ (invalidated /\ d # None) => NextProj # None
    /\ data' = d
    /\ task' = IF invalidated THEN None ELSE task
    /\ LET init == invalidated /\ d # None
           ts2 == IF invalidated THEN cancel_task(tasks, task) ELSE tasks
       IN  /\ wprojection' = IF init THEN FreeVizModel
                             ELSE IF invalidated THEN NoProjection ELSE wprojection
           /\ optimized' = IF init THEN FALSE ELSE optimized
           /\ Store(ts2, calls,
                    IF init THEN [proj EXCEPT ![NextProj] = NewProjector(a, balance)] ELSE proj,
                    IF init THEN NextProj ELSE IF invalidated THEN None ELSE wproj)
    /\ UNCHANGED <<kind, template, nIn, auto, dirty, out, deleted, balance>>
    /\ UNCHANGED xVars

\* OWFreeViz.__gravity_changed (check box) and __gravity_dragged (slider,
\* which sets balance first): write projector.gravity, then restart an
\* optimization that had finished
gravity_changed(b) ==
    /\ kind = "freeviz"
    /\ ~deleted
    /\ balance' = b
    /\ LET runs == task = None /\ optimized IN
         /\ (runs /\ data # None) => NextId(tasks) # None
         /\ task' = IF runs THEN run_task(data, tasks, task) ELSE task
         /\ Store(IF runs THEN run_(data, wproj, tasks, task) ELSE tasks, calls,
                  IF wproj # None
                  THEN [proj EXCEPT ![wproj].gravity = IF b THEN 1 ELSE None]
                  ELSE proj,
                  wproj)
    /\ UNCHANGED <<wVars, wprojection, optimized>>
    /\ UNCHANGED xVars

\* OWFreeViz.__init_combo_changed: init_projection, and restart a running task
init_combo_changed(a) ==
    /\ kind = "freeviz"
    /\ ~deleted
    /\ data # None
    /\ NextProj # None
    /\ task # None => NextId(tasks) # None
    /\ wprojection' = FreeVizModel
    /\ optimized' = FALSE
    /\ task' = IF task # None THEN run_task(data, tasks, task) ELSE task
    /\ Store(IF task # None THEN run_(data, NextProj, tasks, task) ELSE tasks, calls,
             [proj EXCEPT ![NextProj] = NewProjector(a, balance)], NextProj)
    /\ UNCHANGED <<wVars, balance>>
    /\ UNCHANGED xVars

\* OWFreeViz._toggle_run: stop the running task, or start one
toggle_run ==
    /\ kind = "freeviz"
    /\ ~deleted
    /\ (task = None /\ data # None) => NextId(tasks) # None
    /\ task' = IF task # None THEN None ELSE run_task(data, tasks, task)
    /\ Store(IF task # None THEN cancel_task(tasks, task) ELSE run_(data, wproj, tasks, task),
             calls, proj, wproj)
    /\ UNCHANGED <<wVars, wprojection, optimized, balance>>
    /\ UNCHANGED xVars

\* OWFreeViz._manual_move: projector.initial[anchor_idx] = [x, y], a write
\* into the array; components_ is a view of that array except between a fit
\* and the worker's projector.initial = anchors, and so is the local initial
\* of a worker that holds the same anchors
manual_move(a) ==
    /\ kind = "freeviz"
    /\ ~deleted
    /\ wproj # None
    /\ LET fresh == \E t \in TaskIds : tasks[t].pj = wproj /\ tasks[t].st = "publish" IN
         Store([t \in TaskIds |->
                   IF tasks[t].pj = wproj /\ tasks[t].st \in {"fit", "publish", "check"}
                      /\ tasks[t].linit = proj[wproj].initial
                   THEN [tasks[t] EXCEPT !.linit = a] ELSE tasks[t]],
               calls,
               [proj EXCEPT ![wproj].initial = a,
                            ![wproj].comps = IF fresh THEN @ ELSE a],
               wproj)
    /\ UNCHANGED <<wVars, task, wprojection, optimized, balance>>
    /\ UNCHANGED xVars

\* OWFreeViz.on_partial_result: take projector and projection from the result
\* object, as they are when the handler runs
on_partial_result(t) ==
    /\ kind = "freeviz"
    /\ tasks[t].conn
    /\ tasks[t].pq # << >>
    /\ wprojection' = tasks[t].res
    /\ Store([tasks EXCEPT ![t].pq = Tail(@)], calls, proj, tasks[t].pj)
    /\ UNCHANGED <<wVars, task, optimized, balance>>
    /\ UNCHANGED xVars

\* OWFreeViz.on_done: the widget's projector and projection after it
OWFreeViz_on_done(t) == [pj |-> tasks[t].pj, projection |-> tasks[t].res, optimized |-> TRUE]

\* OWFreeViz.on_exception: show the error, keep everything
OWFreeViz_on_exception(t) == [pj |-> wproj, projection |-> wprojection, optimized |-> optimized]

\* ConcurrentMixin._on_task_done for OWFreeViz
FvTaskDone(t) ==
    /\ kind = "freeviz"
    /\ Deliverable(t)
    /\ task' = None
    /\ LET exc == tasks[t].outcome = "exc"
           w == IF exc THEN OWFreeViz_on_exception(t) ELSE OWFreeViz_on_done(t)
       IN  /\ wprojection' = w.projection
           /\ optimized' = w.optimized
           /\ Store(tasks,
                    [calls EXCEPT ![t] = IF exc THEN [@ EXCEPT !.exc = @ + 1]
                                          ELSE [@ EXCEPT !.done = @ + 1]],
                    proj, w.pj)
    /\ UNCHANGED <<wVars, balance>>
    /\ UNCHANGED xVars

\* OWFreeViz.onDeleteWidget: shutdown()
OWFreeViz_onDeleteWidget ==
    /\ kind = "freeviz"
    /\ ~deleted
    /\ deleted' = TRUE
    /\ task' = None
    /\ Store(cancel_task(tasks, task), calls, proj, wproj)
    /\ UNCHANGED <<kind, data, template, nIn, auto, dirty, out, wprojection, optimized, balance>>
    /\ UNCHANGED xVars

(* run_freeviz, one step of the worker thread at a time *)
\* res = Result(projector, None); initial = res.projector.components_.T
FvBegin(t) ==
    /\ kind = "freeviz"
    /\ tasks[t].st = "pending"
    /\ tasks' = [tasks EXCEPT ![t].st = "fit", ![t].linit = proj[tasks[t].pj].comps]
    /\ UNCHANGED <<wVars, task, calls, fVars>>
    /\ UNCHANGED xVars

\* res.projection = res.projector(data).copy(): the fit reads initial and
\* gravity and writes components_ (any anchors: the numbers are the data's),
\* or raises
FvFit(t) ==
    /\ kind = "freeviz"
    /\ tasks[t].st = "fit"
    /\ \E raises \in BOOLEAN, a \in Anchors :
         LET pr2 == [proj EXCEPT ![tasks[t].pj].comps = a] IN
         IF raises
         THEN Store([tasks EXCEPT ![t] = Finish(@, "exc")], calls, proj, wproj)
         ELSE Store([tasks EXCEPT ![t].st = "publish",
                                  ![t].unpub = TRUE,
                                  ![t].res = projection_copy(pr2, tasks[t].pj, Projected)],
                    calls, pr2, wproj)
    /\ UNCHANGED <<wVars, task, wprojection, optimized, balance>>
    /\ UNCHANGED xVars

\* variant: the test of convergence comes before set_partial_result
publish_step_after_test(r, anchors, shown) ==
    IF r.linit = anchors THEN [r EXCEPT !.st = "done", !.outcome = "ok"]
    ELSE [r EXCEPT !.pq = IF r.conn THEN Append(@, shown) ELSE @,
                   !.unpub = FALSE,
                   !.late = IF r.intr /\ @ < 2 THEN @ + 1 ELSE @,
                   !.linit = anchors, !.st = "check"]

\* state.set_partial_result(res) (the signal reaches a connected widget
\* only), then the test of convergence
publish_step(r, anchors, shown) ==
    LET pub == [r EXCEPT !.pq = IF r.conn THEN Append(@, shown) ELSE @,
                         !.unpub = FALSE,
                         !.late = IF r.intr /\ @ < 2 THEN @ + 1 ELSE @]
    IN  IF r.linit = anchors THEN Finish(pub, "ok")
        ELSE [pub EXCEPT !.linit = anchors, !.st = "check"]

\* anchors = components_.T; projector.initial = anchors; publish; converged?
FvPublish(t) ==
    /\ kind = "freeviz"
    /\ tasks[t].st = "publish"
    /\ Len(tasks[t].pq) < MaxQueue
    /\ LET anchors == proj[tasks[t].pj].comps IN
         Store([tasks EXCEPT ![t] =
                    publish_step(@, anchors, ContentIn(proj, tasks[t].pj, tasks[t].res))],
               calls,
               [proj EXCEPT ![tasks[t].pj].initial = anchors],
               wproj)
    /\ UNCHANGED <<wVars, task, wprojection, optimized, balance>>
    /\ UNCHANGED xVars

\* if state.is_interruption_requested(): return res
freeviz_check(r) == IF r.intr THEN Finish(r, "ok") ELSE [r EXCEPT !.st = "fit"]

FvCheck(t) ==
    /\ kind = "freeviz"
    /\ tasks[t].st = "check"
    /\ Store([tasks EXCEPT ![t] = freeviz_check(@)], calls, proj, wproj)
    /\ UNCHANGED <<wVars, task, wprojection, optimized, balance>>
    /\ UNCHANGED xVars

(* ------------- widgets that commit inside the GUI thread ---------------- *)
\* OWRandomize, OWDistanceTransformation, OWNeighbors, OWPurgeDomain,
\* OWAggregateColumns, OWCalibrationPlot: commit is gui.deferred and the
\* callbacks of the controls call commit.deferred
DeferredKinds ==
    {"randomize", "disttransform", "neighbors", "purge", "aggregate", "calibration"}

\* the widgets that do all their work in the GUI thread
SyncKinds == DeferredKinds \cup {"sampler", "manifold", "select"}

\* what commit computes from the inputs: None without data (OWNeighbors:
\* without data or reference), else the result for that data
commit_value(k, d, tm) ==
    IF d = None \/ (k = "neighbors" /\ tm = None) THEN None ELSE d

\* the body of commit: compute and send; OWPurgeDomain.commit returns at
\* once, sending nothing, when there is no data
commit(k, d, tm, s, n, o) ==
    IF k = "purge" /\ d = None THEN o
    ELSE [val |-> commit_value(k, d, tm), fromIn |-> n, atIn |-> n, set |-> s]

\* commit.now(): run commit, nothing is left waiting
commit_now(d, tm, s, n) ==
    /\ out' = commit(kind, d, tm, s, n, out)
    /\ dirty' = FALSE
    /\ ran' = 1

\* commit.deferred(): commit.now with auto-apply on, else mark as waiting
commit_deferred(d, tm, s, n) ==
    IF DeferredCommits
    THEN commit_now(d, tm, s, n)
    ELSE dirty' = TRUE /\ ran' = 0 /\ out' = out

\* variant: the input handler leaves the commit to the auto-apply setting
input_commit_deferred(d) ==
    /\ kind \in DeferredKinds \ {"neighbors", "purge"}
    /\ nIn < MaxInputs
    /\ data' = d
    /\ nIn' = nIn + 1
    /\ commit_deferred(d, template, setting, nIn + 1)
    /\ UNCHANGED <<kind, template, auto, deleted, mVars, fVars, eVars>>
    /\ UNCHANGED <<setting, busy, waiting, cVars>>

\* set_data of OWRandomize and OWDistanceTransformation, set_data +
\* handleNewSignals of OWAggregateColumns, OWCalibrationPlot.set_results:
\* store the input, commit.now
input_commit_now(d) ==
    /\ kind \in DeferredKinds \ {"neighbors", "purge"}
    /\ nIn < MaxInputs
    /\ data' = d
    /\ nIn' = nIn + 1
    /\ commit_now(d, template, setting, nIn + 1)
    /\ UNCHANGED <<kind, template, auto, deleted, mVars, fVars, eVars>>
    /\ UNCHANGED <<setting, busy, waiting, cVars>>

OWRandomize_set_data(d) == kind = "randomize" /\ input_commit_now(d)

OWDistanceTransformation_set_data(d) == kind = "disttransform" /\ input_commit_now(d)

OWAggregateColumns_set_data(d) == kind = "aggregate" /\ input_commit_now(d)

OWCalibrationPlot_set_results(d) == kind = "calibration" /\ input_commit_now(d)

\* OWNeighbors.set_data / set_ref followed by handleNewSignals:
\* compute_distances, commit.now
OWNeighbors_handleNewSignals(d, r) ==
    /\ kind = "neighbors"
    /\ nIn < MaxInputs
    /\ data' = d
    /\ template' = r
    /\ nIn' = nIn + 1
    /\ commit_now(d, r, setting, nIn + 1)
    /\ UNCHANGED <<kind, auto, deleted, mVars, fVars, eVars>>
    /\ UNCHANGED <<setting, busy, waiting, cVars>>

\* variant: setData that leaves the None to commit
OWPurgeDomain_setData_commit(d) ==
    /\ kind = "purge"
    /\ nIn < MaxInputs
    /\ data' = d
    /\ nIn' = nIn + 1
    /\ commit_now(d, template, setting, nIn + 1)
    /\ UNCHANGED <<kind, template, auto, deleted, mVars, fVars, eVars>>
    /\ UNCHANGED <<setting, busy, waiting, cVars>>

\* OWPurgeDomain.setData: commit.now for data; for None reset the labels and
\* send None without a commit
OWPurgeDomain_setData(d) ==
    /\ kind = "purge"
    /\ nIn < MaxInputs
    /\ data' = d
    /\ nIn' = nIn + 1
    /\ IF d # None
       THEN commit_now(d, template, setting, nIn + 1)
       ELSE /\ out' = [val |-> None, fromIn |-> nIn + 1, atIn |-> nIn + 1, set |-> setting]
            /\ ran' = 0
            /\ dirty' = dirty
    /\ UNCHANGED <<kind, template, auto, deleted, mVars, fVars, eVars>>
    /\ UNCHANGED <<setting, busy, waiting, cVars>>

(* OWDataSampler *)
\* the smallest value of the spin "number of subsets"
MinFolds == 2

FixedProportion == 0

FixedSize == 1

CrossValidation == 2

Bootstrap == 3

SamplingTypes == {FixedProportion, FixedSize, CrossValidation, Bootstrap}

\* the default of sampleSizePercentage (the slider is not moved in the model)
sampleSizePercentage == 70

\* the default of sampleSizeNumber (the spin is not changed in the model)
sampleSizeNumber == 1

\* len(data): dataset 1 has two rows, dataset 2 three, ...
len(d) == d + 1

\* the row indices of a dataset
Rows(d) == 1..len(d)

\* self.indices = None
NoIndices ==
    [shape |-> "none", pair |-> <<{}, {}>>, folds |-> << >>,
     forData |-> None, forType |-> -1, forFolds |-> 0]

\* nothing was sent yet
NotSent == [is |-> "nothing", rows |-> {}]

\* send(None)
SentNone == [is |-> "None", rows |-> {}]

\* send(self.data[rows]) with an array of rows
SentTable(rows) == [is |-> "Table", rows |-> rows]

\* send(self.data[row]) with one row index: a row instance, not a table
SentInstance(row) == [is |-> "Instance", rows |-> {row}]

\* np.ceil(sampleSizePercentage / 100 * data_length)
proportion_size(L) == (sampleSizePercentage * L + 99) \div 100

\* KFold: the first L % n folds have L // n + 1 rows, the others L // n
fold_size(L, n, k) == (L \div n) + (IF k <= L % n THEN 1 ELSE 0)

\* SampleFoldIndices.__call__: tuple(KFold(folds, shuffle=True).split(table)),
\* one (train, test) pair per fold; the test sets are disjoint, of the sizes
\* of KFold, in an order the shuffle decides
SampleFoldIndices(L, n) ==
    {[k \in 1..n |-> <<(1..L) \ f[k], f[k]>>] :
        f \in {g \in [1..n -> SUBSET (1..L)] :
                  /\ \A k \in 1..n : Cardinality(g[k]) = fold_size(L, n, k)
                  /\ \A j, k \in 1..n : j # k => g[j] \cap g[k] = {}}}

\* SampleRandomN.__call__ without replacement: (others, sample) with n rows
\* in the sample
SampleRandomN(L, n) ==
    {<<(1..L) \ smp, smp>> : smp \in {x \in SUBSET (1..L) : Cardinality(x) = n}}

\* SampleBootstrap.__call__: (remaining, sample); the sample is drawn with
\* replacement, remaining are the rows that were not drawn
SampleBootstrap(L) ==
    {<<(1..L) \ smp, smp>> : smp \in (SUBSET (1..L)) \ {{}}}

\* OWDataSampler.updateindices: the values self.indices can have after it
\* (None with an error: sample larger than data, more folds than rows)
updateindices(d, st, n) ==
    LET L == len(d)
        size == IF st = FixedSize THEN sampleSizeNumber ELSE proportion_size(L)
        ind(shape, pairs, folds) ==
            {[shape |-> shape, pair |-> pr, folds |-> fo,
              forData |-> d, forType |-> st, forFolds |-> IF st = CrossValidation THEN n ELSE 0] :
                  pr \in pairs, fo \in folds}
    IN  IF st \in {FixedSize, FixedProportion} /\ size > L THEN {NoIndices}
        ELSE IF st = CrossValidation /\ L < n THEN {NoIndices}
        ELSE IF st = CrossValidation THEN ind("folds", {<<{}, {}>>}, SampleFoldIndices(L, n))
        ELSE IF st = Bootstrap THEN ind("pair", SampleBootstrap(L), {<< >>})
        ELSE ind("pair", SampleRandomN(L, size), {<< >>})

\* OWDataSampler.commit after the indices are there: what the unpacking of
\* self.indices gives, as the set of the possible outcomes. An outcome names
\* what is sent on the two outputs, or that the statement raised.
\*  - remaining, sample = self.indices                    (other modes)
\*  - sample, remaining = self.indices[selectedFold - 1]  (cross validation;
\*    the other way round in compatibility mode)
\* With a pair in self.indices, indices[selectedFold - 1] is an array of row
\* indices: unpacking it raises ValueError unless it has two elements, which
\* then are two row indices; with selectedFold > 2 the index raises.
unpack_indices(idx, st, k, compat) ==
    LET raised == [sent |-> FALSE, sample |-> NotSent, remaining |-> NotSent]
        tables(smp, rem) ==
            [sent |-> TRUE, sample |-> SentTable(smp), remaining |-> SentTable(rem)]
        rows(a, b) ==
            [sent |-> TRUE, sample |-> SentInstance(a), remaining |-> SentInstance(b)]
    IN  IF st # CrossValidation
        THEN IF idx.shape = "pair" THEN {tables(idx.pair[2], idx.pair[1])} ELSE {raised}
        ELSE IF idx.shape = "folds"
             THEN IF k > Len(idx.folds) THEN {raised}
                  ELSE IF compat THEN {tables(idx.folds[k][2], idx.folds[k][1])}
                  ELSE {tables(idx.folds[k][1], idx.folds[k][2])}
             ELSE IF k > 2 \/ Cardinality(idx.pair[k]) # 2 THEN {raised}
                  ELSE {raised} \cup
                       {rows(q[1], q[2]) :
                           q \in {r \in idx.pair[k] \X idx.pair[k] : r[1] # r[2]}}

\* OWDataSampler.commit
sampler_commit(d, idx) ==
    IF d = None
    THEN /\ data_sample' = SentNone
         /\ remaining_data' = SentNone
         /\ indices' = idx
         /\ committed' = "sent"
         /\ out' = commit(kind, d, template, setting, nIn', out)
    ELSE \E upd \in (IF idx.shape = "none" \/ ~use_seed
                     THEN updateindices(d, sampling_type, number_of_folds)
                     ELSE {idx}) :
           /\ indices' = upd
           /\ IF upd.shape = "none"
              THEN /\ committed' = "returned"
                   /\ UNCHANGED <<data_sample, remaining_data, out>>
              ELSE \E o \in unpack_indices(upd, sampling_type, selectedFold, compatibility_mode) :
                     IF o.sent
                     THEN /\ data_sample' = o.sample
                          /\ remaining_data' = o.remaining
                          /\ committed' = "sent"
                          /\ out' = commit(kind, d, template, setting, nIn', out)
                     ELSE /\ committed' = "raised"
                          /\ UNCHANGED <<data_sample, remaining_data, out>>

\* the fields of the widgets added later, other than those of OWDataSampler
notSampler == <<gVars, aVars, iVars>>

\* OWDataSampler.set_data: store the data, update the indices (None
\* without data), commit()
OWDataSampler_set_data(d) ==
    /\ kind = "sampler"
    /\ nIn < MaxInputs
    /\ data' = d
    /\ nIn' = nIn + 1
    /\ \E upd \in (IF d = None THEN {NoIndices}
                   ELSE updateindices(d, sampling_type, number_of_folds)) :
          sampler_commit(d, upd)
    /\ ran' = 1
    /\ UNCHANGED <<kind, template, auto, dirty, deleted, mVars, fVars>>
    /\ UNCHANGED <<setting, busy, waiting, cVars, notSampler>>
    /\ UNCHANGED <<sampling_type, number_of_folds, selectedFold, use_seed, compatibility_mode>>

\* OWDataSampler.settings_changed as the callback of the check box
\* "stratify": forget the indices; nothing is sent
OWDataSampler_settings_changed ==
    /\ kind = "sampler"
    /\ setting' = 1 - setting
    /\ ran' = 0
    /\ indices' = NoIndices
    /\ UNCHANGED <<wVars, mVars, fVars, busy, waiting, cVars, notSampler>>
    /\ UNCHANGED <<sampling_type, number_of_folds, selectedFold, use_seed, compatibility_mode,
                   data_sample, remaining_data, committed>>

\* the check box "replicable sampling": settings_changed
use_seed_changed ==
    /\ kind = "sampler"
    /\ use_seed' = ~use_seed
    /\ indices' = NoIndices
    /\ UNCHANGED <<wVars, mVars, fVars, sVars, cVars, notSampler>>
    /\ UNCHANGED <<sampling_type, number_of_folds, selectedFold, compatibility_mode,
                   data_sample, remaining_data, committed>>

\* OWDataSampler.sampling_type_changed, called by the radio buttons and, via
\* set_sampling_type(i), by the slider and the spins of a sampling type
sampling_type_changed(i) ==
    /\ kind = "sampler"
    /\ sampling_type' = i
    /\ indices' = NoIndices
    /\ UNCHANGED <<wVars, mVars, fVars, sVars, cVars, notSampler>>
    /\ UNCHANGED <<number_of_folds, selectedFold, use_seed, compatibility_mode,
                   data_sample, remaining_data, committed>>

\* OWDataSampler.number_of_folds_changed: the spin of the selected fold gets
\* the new maximum (which lowers its value if needed), cross validation is
\* selected, settings_changed
number_of_folds_changed(n) ==
    /\ kind = "sampler"
    /\ number_of_folds' = n
    /\ selectedFold' = IF selectedFold > n THEN n ELSE selectedFold
    /\ sampling_type' = CrossValidation
    /\ indices' = NoIndices
    /\ UNCHANGED <<wVars, mVars, fVars, sVars, cVars, notSampler>>
    /\ UNCHANGED <<use_seed, compatibility_mode, data_sample, remaining_data, committed>>

\* OWDataSampler.fold_changed, the callback of the spin of the selected
\* fold: cross validation is selected; self.indices is kept
fold_changed(f) ==
    /\ kind = "sampler"
    /\ f \in 1..number_of_folds
    /\ selectedFold' = f
    /\ sampling_type' = CrossValidation
    /\ UNCHANGED <<wVars, mVars, fVars, sVars, cVars, notSampler>>
    /\ UNCHANGED <<number_of_folds, use_seed, compatibility_mode, indices,
                   data_sample, remaining_data, committed>>

\* the button "Sample Data" of OWDataSampler: commit()
OWDataSampler_commit ==
    /\ kind = "sampler"
    /\ nIn' = nIn
    /\ sampler_commit(data, indices)
    /\ ran' = 1
    /\ UNCHANGED <<kind, data, template, auto, dirty, deleted, mVars, fVars>>
    /\ UNCHANGED <<setting, busy, waiting, cVars, notSampler>>
    /\ UNCHANGED <<sampling_type, number_of_folds, selectedFold, use_seed, compatibility_mode>>

\* a control's callback (_shuffle_check_changed, _invalidate, recompute,
\* _on_operation_changed, threshold_change_done): commit.deferred
control_changed ==
    /\ kind \in DeferredKinds
    /\ setting' = 1 - setting
    /\ commit_deferred(data, template, 1 - setting, nIn)
    /\ UNCHANGED <<kind, data, template, nIn, auto, deleted, mVars, fVars, eVars>>
    /\ UNCHANGED <<busy, waiting, cVars>>

\* gui.auto_apply: the Apply button runs commit
apply_clicked ==
    /\ kind \in DeferredKinds
    /\ commit_now(data, template, setting, nIn)
    /\ UNCHANGED <<kind, data, template, nIn, auto, deleted, mVars, fVars, eVars>>
    /\ UNCHANGED <<setting, busy, waiting, cVars>>

\* gui.auto_apply: the check box; switching it on commits what is waiting
auto_toggled ==
    /\ kind \in DeferredKinds
    /\ auto' = ~auto
    /\ IF ~auto /\ dirty
       THEN commit_now(data, template, setting, nIn)
       ELSE ran' = 0 /\ UNCHANGED <<out, dirty>>
    /\ UNCHANGED <<kind, data, template, nIn, deleted, mVars, fVars, eVars>>
    /\ UNCHANGED <<setting, busy, waiting, cVars>>

(* --------------------------- OWManifoldLearning -------------------------- *)
\* OWManifoldLearning.commit up to the call of the projector: without data
\* None is sent at once, with data the GUI thread computes the embedding
manifold_commit(d, n) ==
    /\ dirty' = FALSE
    /\ ran' = 1
    /\ IF d = None
       THEN out' = [val |-> None, fromIn |-> n, atIn |-> n, set |-> setting'] /\ busy' = FALSE
       ELSE out' = out /\ busy' = TRUE

\* OWManifoldLearning.set_data: store the data, commit.now
OWManifoldLearning_set_data(d) ==
    /\ kind = "manifold"
    /\ ~busy
    /\ nIn < MaxInputs
    /\ data' = d
    /\ nIn' = nIn + 1
    /\ waiting' = FALSE
    /\ setting' = setting
    /\ manifold_commit(d, nIn + 1)
    /\ UNCHANGED <<kind, template, auto, deleted, mVars, fVars, eVars, cVars>>

\* OWManifoldLearning.settings_changed / manifold_method_changed:
\* commit.deferred
OWManifoldLearning_settings_changed ==
    /\ kind = "manifold"
    /\ ~busy
    /\ setting' = 1 - setting
    /\ waiting' = FALSE
    /\ IF DeferredCommits
       THEN manifold_commit(data, nIn)
       ELSE dirty' = TRUE /\ ran' = 0 /\ UNCHANGED <<out, busy>>
    /\ UNCHANGED <<kind, data, template, nIn, auto, deleted, mVars, fVars, eVars, cVars>>

\* the rest of OWManifoldLearning.commit: the projector returns the
\* embedding or raises (ValueError, MemoryError, LinAlgError), and the
\* embedding or None is sent
manifold_commit_returns(raises) ==
    /\ kind = "manifold"
    /\ busy
    /\ busy' = FALSE
    /\ out' = [val |-> IF raises THEN None ELSE data, fromIn |-> nIn, atIn |-> nIn,
               set |-> setting]
    /\ UNCHANGED <<kind, data, template, nIn, auto, dirty, deleted, mVars, fVars, eVars>>
    /\ UNCHANGED <<setting, ran, waiting, cVars>>

\* the canvas or the user posts an input or a change while the GUI thread
\* is inside commit: it waits in the event queue
event_posted ==
    /\ kind = "manifold"
    /\ busy
    /\ ~waiting
    /\ waiting' = TRUE
    /\ UNCHANGED <<wVars, mVars, fVars, eVars, setting, ran, busy, cVars>>

(* --------------------------- OWSelectAttributes -------------------------- *)
\* the variables of the datasets in the model
Vars == {"x", "y"}

\* the domains of the datasets in the model
DomIds == {1, 2}

\* domain.attributes of a dataset (the datasets have no class and no metas)
attributes(d) == IF d = 1 THEN <<"x", "y">> ELSE <<"y">>

Roles == {"available", "attribute", "class", "meta"}

\* the lists the user moves variables between (the datasets have no target)
MoveRoles == {"available", "attribute", "meta"}

\* the four list models, empty
NoLists == [available |-> << >>, attribute |-> << >>, class |-> << >>, meta |-> << >>]

NoHint == [role |-> "none", idx |-> 0]

\* domain_role_hints = {}
NoHints == [v \in Vars |-> NoHint]

\* a context that was not created
NoContext == [stored |-> FALSE, hints |-> NoHints]

In(seq, v) == \E i \in 1..Len(seq) : seq[i] = v

\* enumerate(model): the index of v, the last one when it occurs twice
\* (a later item of the sequence replaces an earlier one in dict.update)
LastPos(seq, v) ==
    CHOOSE i \in 1..Len(seq) : seq[i] = v /\ \A j \in (i + 1)..Len(seq) : seq[j] # v

\* OWSelectAttributes._hints_from_seq for one variable of the model
hints_from_seq(role, model, v) == [role |-> role, idx |-> LastPos(model, v) - 1]

\* variant: the hints keep the list and lose the position
update_domain_role_hints_no_index(ls) ==
    [v \in Vars |->
        IF In(ls.meta, v) THEN [role |-> "meta", idx |-> 0]
        ELSE IF In(ls.class, v) THEN [role |-> "class", idx |-> 0]
        ELSE IF In(ls.attribute, v) THEN [role |-> "attribute", idx |-> 0]
        ELSE IF In(ls.available, v) THEN [role |-> "available", idx |-> 0]
        ELSE NoHint]

\* OWSelectAttributes.update_domain_role_hints: a dict updated with the hints
\* of available, attribute, class and meta in this order, so the last list
\* that holds a variable decides
update_domain_role_hints(ls) ==
    [v \in Vars |->
        IF In(ls.meta, v) THEN hints_from_seq("meta", ls.meta, v)
        ELSE IF In(ls.class, v) THEN hints_from_seq("class", ls.class, v)
        ELSE IF In(ls.attribute, v) THEN hints_from_seq("attribute", ls.attribute, v)
        ELSE IF In(ls.available, v) THEN hints_from_seq("available", ls.available, v)
        ELSE NoHint]

\* OWSelectAttributes.restore_hints: hints from the domain (as selected, or
\* as available with ignore_new_features and a restored context), updated
\* with the hints of the context
restore_hints(d, hints, ignore) ==
    [v \in Vars |->
        IF hints[v] # NoHint THEN hints[v]
        ELSE IF ~In(attributes(d), v) THEN NoHint
        ELSE IF ~ignore \/ hints = NoHints
             THEN hints_from_seq("attribute", attributes(d), v)
             ELSE hints_from_seq("available", attributes(d), v)]

\* sorted(..., key=index): v goes in front of the first item whose index is
\* not smaller (the sort is stable and v comes first in the domain)
RECURSIVE insert_sorted(_, _, _)
insert_sorted(v, seq, hints) ==
    IF seq = << >> THEN <<v>>
    ELSE IF hints[v].idx <= hints[Head(seq)].idx THEN <<v>> \o seq
    ELSE <<Head(seq)>> \o insert_sorted(v, Tail(seq), hints)

RECURSIVE sorted_by_index(_, _)
sorted_by_index(seq, hints) ==
    IF seq = << >> THEN << >>
    ELSE insert_sorted(Head(seq), sorted_by_index(Tail(seq), hints), hints)

\* set_data.attrs_for_role: the variables with the role, by index
attrs_for_role(role, d, hints) ==
    sorted_by_index(SelectSeq(attributes(d), LAMBDA v : hints[v].role = role), hints)

\* SelectAttributesDomainContextHandler.match for a context of another
\* domain: the hints that are not "available", and how many of them are
\* variables of the new domain
Assigned(ctx) == {v \in Vars : ctx.hints[v].role \notin {"none", "available"}}

Matching(ctx, d) == {v \in Assigned(ctx) : In(attributes(d), v)}

\* the stored context of another domain that matches best (a positive
\* share of its assigned variables), None when there is none
BestPartial(ctxs, d) ==
    LET cands == {e \in DomIds \ {d} :
                     ctxs[e].stored /\ Cardinality(Matching(ctxs[e], d)) > 0}
    IN  IF cands = {} THEN None
        ELSE CHOOSE e \in cands : \A f \in cands :
               \/ Cardinality(Matching(ctxs[e], d)) * Cardinality(Assigned(ctxs[f]))
                    > Cardinality(Matching(ctxs[f], d)) * Cardinality(Assigned(ctxs[e]))
               \/ /\ Cardinality(Matching(ctxs[e], d)) * Cardinality(Assigned(ctxs[f]))
                       = Cardinality(Matching(ctxs[f], d)) * Cardinality(Assigned(ctxs[e]))
                  /\ e <= f

\* SelectAttributesDomainContextHandler.filter_value: keep the hints of the
\* variables of the domain
filter_value(hints, d) == [v \in Vars |-> IF In(attributes(d), v) THEN hints[v] ELSE NoHint]

\* openContext(data): the context of the same domain (PERFECT_MATCH) is
\* restored; else the best partial match is cloned and filtered; else a new
\* context is made from the widget's settings (domain_role_hints = {})
openContext(ctxs, d) ==
    IF ctxs[d].stored THEN [contexts |-> ctxs, hints |-> ctxs[d].hints]
    ELSE LET e == BestPartial(ctxs, d)
             h == IF e = None THEN NoHints ELSE filter_value(ctxs[e].hints, d)
         IN  [contexts |-> [ctxs EXCEPT ![d] = [stored |-> TRUE, hints |-> h]], hints |-> h]

\* OWSelectAttributes.commit: the data in the domain of the lists, None
\* without data. The value of the model tells which dataset was sent, and
\* that is the same whether commit.deferred runs the commit now or on Apply
select_commit(d) ==
    /\ out' = [val |-> d, fromIn |-> nIn, atIn |-> nIn, set |-> setting]
    /\ UNCHANGED <<dirty, ran>>

\* OWSelectAttributes.features_from_data_attributes
features_from_data_attributes(d, f) ==
    IF d = None THEN << >> ELSE SelectSeq(f, LAMBDA v : In(attributes(d), v))

\* OWSelectAttributes.use_features: the input features become the used
\* attributes, the other used and available ones become available
use_features(ls, attrs) ==
    [ls EXCEPT !.available = SelectSeq(ls.attribute \o ls.available, LAMBDA a : ~In(attrs, a)),
               !.attribute = attrs]

\* the number of entries in the four lists
Listed(ls) == Len(ls.available) + Len(ls.attribute) + Len(ls.class) + Len(ls.meta)

\* handleNewSignals up to its commit.now
handleNewSignals(ls, d, f, use) ==
    IF use /\ features_from_data_attributes(d, f) # << >>
    THEN use_features(ls, features_from_data_attributes(d, f))
    ELSE ls

\* OWSelectAttributes.set_data followed by handleNewSignals: save the hints
\* in the context of the replaced data, restore the lists for the new data
\* from its context, apply the input features, commit.now
OWSelectAttributes_set_data(d) ==
    /\ kind = "select"
    /\ data' = d
    /\ left' = IF data # None THEN [left EXCEPT ![data] = lists] ELSE left
    /\ LET domain_role_hints == update_domain_role_hints(lists)
           closed == IF data # None
                     THEN [contexts EXCEPT ![data] = [stored |-> TRUE, hints |-> domain_role_hints]]
                     ELSE contexts
       IN  IF d = None
           THEN lists' = NoLists /\ contexts' = closed
           ELSE LET opened == openContext(closed, d)
                    domain_hints == restore_hints(d, opened.hints, ignore_new_features)
                    restored == [r \in Roles |-> attrs_for_role(r, d, domain_hints)]
                IN  /\ contexts' = opened.contexts
                    /\ lists' = handleNewSignals(restored, d, features, use_input_features)
    /\ Listed(lists') <= MaxListed
    /\ select_commit(d)
    /\ UNCHANGED <<kind, template, nIn, auto, deleted, mVars, fVars, eVars>>
    /\ UNCHANGED <<setting, busy, waiting, features, use_input_features, ignore_new_features>>

\* OWSelectAttributes.set_features followed by handleNewSignals
OWSelectAttributes_set_features(f) ==
    /\ kind = "select"
    /\ features' = f
    /\ lists' = handleNewSignals(lists, data, f, use_input_features)
    /\ Listed(lists') <= MaxListed
    /\ select_commit(data)
    /\ UNCHANGED <<kind, data, template, nIn, auto, deleted, mVars, fVars, eVars>>
    /\ UNCHANGED <<setting, busy, waiting, use_input_features, ignore_new_features, contexts, left>>

\* OWSelectAttributes.__use_features_changed: the check box; switched on,
\* the input features are used when they differ from the used attributes
use_features_changed ==
    /\ kind = "select"
    /\ use_input_features' = ~use_input_features
    /\ LET attrs == features_from_data_attributes(data, features) IN
         IF ~use_input_features /\ attrs # << >> /\ attrs # lists.attribute
         THEN /\ lists' = use_features(lists, attrs)
              /\ Listed(lists') <= MaxListed
              /\ select_commit(data)
         ELSE UNCHANGED <<lists, out, dirty, ran>>
    /\ UNCHANGED <<kind, data, template, nIn, auto, deleted, mVars, fVars, eVars>>
    /\ UNCHANGED <<setting, busy, waiting, features, ignore_new_features, contexts, left>>

\* the used attributes can be edited: enable_used_attrs
used_attrs_enabled ==
    ~(use_input_features /\ features_from_data_attributes(data, features) # << >>)

\* OWSelectAttributes.move_from_to for one selected row: take the variable
\* out of the source list, append it to the other list, commit.deferred
move_from_to(src, dst, i) ==
    /\ kind = "select"
    /\ src # dst
    /\ i \in 1..Len(lists[src])
    /\ ("attribute" \in {src, dst}) => used_attrs_enabled
    /\ lists' = [lists EXCEPT
                   ![src] = SubSeq(@, 1, i - 1) \o SubSeq(@, i + 1, Len(@)),
                   ![dst] = Append(@, lists[src][i])]
    /\ select_commit(data)
    /\ UNCHANGED <<kind, data, template, nIn, auto, deleted, mVars, fVars, eVars>>
    /\ UNCHANGED <<setting, busy, waiting, features, use_input_features, ignore_new_features,
                   contexts, left>>

\* OWSelectAttributes.move_up / move_down -> move_rows: the selected row
\* changes places with its neighbour, commit.deferred
move_rows(role, i) ==
    /\ kind = "select"
    /\ i \in 1..(Len(lists[role]) - 1)
    /\ role = "attribute" => used_attrs_enabled
    /\ lists' = [lists EXCEPT ![role] = [@ EXCEPT ![i] = lists[role][i + 1],
                                                   ![i + 1] = lists[role][i]]]
    /\ select_commit(data)
    /\ UNCHANGED <<kind, data, template, nIn, auto, deleted, mVars, fVars, eVars>>
    /\ UNCHANGED <<setting, busy, waiting, features, use_input_features, ignore_new_features,
                   contexts, left>>

\* OWSelectAttributes.reset: the lists as the domain has them, the check
\* box off, commit.now
reset ==
    /\ kind = "select"
    /\ use_input_features' = FALSE
    /\ IF data # None
       THEN /\ lists' = [NoLists EXCEPT !.attribute = attributes(data)]
            /\ select_commit(data)
       ELSE UNCHANGED <<lists, out, dirty, ran>>
    /\ UNCHANGED <<kind, data, template, nIn, auto, deleted, mVars, fVars, eVars>>
    /\ UNCHANGED <<setting, busy, waiting, features, ignore_new_features, contexts, left>>

\* the check box "ignore new variables by default"
ignore_new_features_changed ==
    /\ kind = "select"
    /\ ignore_new_features' = ~ignore_new_features
    /\ UNCHANGED <<wVars, mVars, fVars, eVars, sVars, lists, features, use_input_features,
                   contexts, left>>

(* ------------------------------- OWAdaBoost ------------------------------ *)
\* DEFAULT_BASE_ESTIMATOR = SklTreeLearner()
DEFAULT_BASE_ESTIMATOR == "tree"

\* the learners of the input: none, one that supports weights, one that
\* does not
InputLearners == {"none", "weighted", "unweighted"}

\* learner.supports_weights
supports_weights(l) == l = "weighted"

\* algorithms = ["SAMME", "SAMME.R"]
algorithms == <<"SAMME", "SAMME.R">>

\* losses (lower case)
losses == <<"linear", "square", "exponential">>

\* create_learner returned None, or nothing was created yet
NoLearner ==
    [is |-> "none", estimator |-> "none", random_state |-> [fixed |-> FALSE, seed |-> 0],
     algorithm |-> "", loss |-> ""]

\* OWAdaBoost.create_learner; random_state None is [fixed |-> FALSE]
create_learner(base, use, seed, alg, loss) ==
    IF base = "none" THEN NoLearner
    ELSE [is |-> "AdaBoost", estimator |-> base,
          random_state |-> [fixed |-> TRUE, seed |-> seed],
          algorithm |-> algorithms[alg + 1], loss |-> losses[loss + 1]]

\* the fields the handlers of OWAdaBoost leave alone
notAdaBoost ==
    <<kind, data, template, nIn, auto, dirty, task, tasks, out, deleted, calls, fVars,
      sVars, cVars, dVars, gVars, iVars>>

\* OWBaseLearner.update_learner: self.learner = self.create_learner()
update_learner(base, use, seed, alg, loss) ==
    learner' = create_learner(base, use, seed, alg, loss)

\* OWAdaBoost.set_base_learner, followed by handleNewSignals (apply)
OWAdaBoost_set_base_learner(l) ==
    /\ kind = "adaboost"
    /\ IF l # "none" /\ ~supports_weights(l)
       THEN /\ no_weight_support' = TRUE
            /\ base_estimator' = "none"
       ELSE /\ no_weight_support' = FALSE
            /\ base_estimator' = IF l # "none" THEN l ELSE DEFAULT_BASE_ESTIMATOR
    /\ update_learner(base_estimator', use_random_seed, random_seed, algorithm_index,
                      loss_index)
    /\ UNCHANGED <<use_random_seed, random_seed, algorithm_index, loss_index>>
    /\ UNCHANGED notAdaBoost

\* the check box of random_seed_spin (checked="use_random_seed",
\* checkCallback=settings_changed)
use_random_seed_changed ==
    /\ kind = "adaboost"
    /\ use_random_seed' = ~use_random_seed
    /\ update_learner(base_estimator, use_random_seed', random_seed, algorithm_index,
                      loss_index)
    /\ UNCHANGED <<base_estimator, no_weight_support, random_seed, algorithm_index,
                   loss_index>>
    /\ UNCHANGED notAdaBoost

\* random_seed_spin (callback=settings_changed); the spin is enabled while
\* its check box is ticked
random_seed_changed(v) ==
    /\ kind = "adaboost"
    /\ use_random_seed
    /\ random_seed' = v
    /\ update_learner(base_estimator, use_random_seed, v, algorithm_index, loss_index)
    /\ UNCHANGED <<base_estimator, no_weight_support, use_random_seed, algorithm_index,
                   loss_index>>
    /\ UNCHANGED notAdaBoost

\* cls_algorithm_combo (callback=settings_changed)
algorithm_changed(i) ==
    /\ kind = "adaboost"
    /\ algorithm_index' = i
    /\ update_learner(base_estimator, use_random_seed, random_seed, i, loss_index)
    /\ UNCHANGED <<base_estimator, no_weight_support, use_random_seed, random_seed,
                   loss_index>>
    /\ UNCHANGED notAdaBoost

\* reg_algorithm_combo (callback=settings_changed)
loss_changed(i) ==
    /\ kind = "adaboost"
    /\ loss_index' = i
    /\ update_learner(base_estimator, use_random_seed, random_seed, algorithm_index, i)
    /\ UNCHANGED <<base_estimator, no_weight_support, use_random_seed, random_seed,
                   algorithm_index>>
    /\ UNCHANGED notAdaBoost

(* ------------------------------- OWDataInfo ------------------------------ *)
\* no table (None) on the input
NoTable == [id |-> 0, sql |-> FALSE]

\* is_sql
is_sql(d) == d.sql

\* {}: a dict with no entry; of is the table the entries other than the
\* size were computed from, size the entry of the size
EmptyDict == [of |-> 0, size |-> [of |-> 0, exact |-> FALSE]]

\* OWDataInfo._p_size: the size of table d, exact or approximate
p_size(d, exact) == [of |-> d.id, exact |-> (exact \/ is_sql(d))]

\* the fields the steps of OWDataInfo leave alone
notDataInfo ==
    <<kind, data, template, nIn, auto, dirty, task, tasks, out, deleted, calls, fVars,
      sVars, cVars, dVars, gVars, aVars>>

\* the tables of the input, numbered in the order of their arrival
Tables == [id : 1..MaxTables, sql : BOOLEAN]

\* OWDataInfo.data: the input handler (update_info shows data_desc)
OWDataInfo_data(d) ==
    /\ kind = "datainfo"
    /\ d = NoTable \/ (nTables < MaxTables /\ d.id = nTables + 1)
    /\ table' = d
    /\ nTables' = IF d = NoTable THEN nTables ELSE nTables + 1
    /\ IF d = NoTable
       THEN /\ data_desc' = EmptyDict
            /\ data_attrs' = EmptyDict
            /\ same_dict' = TRUE
            /\ UNCHANGED threads
       ELSE /\ data_desc' = [of |-> d.id, size |-> p_size(d, FALSE)]
            /\ data_attrs' = [EmptyDict EXCEPT !.of = d.id]
            /\ same_dict' = FALSE
            /\ threads' = IF is_sql(d) THEN threads \cup {d} ELSE threads
    /\ description' = data_desc'
    /\ UNCHANGED notDataInfo

\* set_exact_length in its thread: the size is written into the dict that
\* self.data_desc is now, then update_info
set_exact_length(d) ==
    /\ kind = "datainfo"
    /\ d \in threads
    /\ threads' = threads \ {d}
    /\ data_desc' = [data_desc EXCEPT !.size = p_size(d, TRUE)]
    /\ data_attrs' = IF same_dict THEN data_desc' ELSE data_attrs
    /\ description' = data_desc'
    /\ UNCHANGED <<table, nTables, same_dict>>
    /\ UNCHANGED notDataInfo

(* ---------------------------- specification ----------------------------- *)
\* the settings that only a stored workflow changes
DefaultSettings ==
    /\ compatibility_mode = FALSE

\* a widget after its construction
InitWidget ==
    /\ data = None
    /\ template = None
    /\ nIn = 0
    /\ auto = TRUE
    /\ dirty = FALSE
    /\ task = None
    /\ tasks = [t \in TaskIds |-> NoTask]
    /\ calls = [t \in TaskIds |-> [done |-> 0, exc |-> 0]]
    /\ out = [val |-> None, fromIn |-> 0, atIn |-> 0, set |-> 0]
    /\ deleted = FALSE
    /\ proj = [p \in ProjIds |-> NoProjector]
    /\ wproj = None
    /\ wprojection = NoProjection
    /\ optimized = FALSE
    /\ balance = FALSE
    /\ setting = 0
    /\ ran = 0
    /\ busy = FALSE
    /\ waiting = FALSE
    /\ lists = NoLists
    /\ features = << >>
    /\ use_input_features = FALSE
    /\ ignore_new_features = FALSE
    /\ contexts = [d \in DomIds |-> NoContext]
    /\ left = [d \in DomIds |-> NoLists]
    /\ sampling_type = FixedProportion
    /\ number_of_folds = MinFolds
    /\ selectedFold = 1
    /\ use_seed = TRUE
    /\ indices = NoIndices
    /\ data_sample = NotSent
    /\ remaining_data = NotSent
    /\ committed = "none"
    /\ metric_id = EuclideanNormalized
    /\ axis = 0
    /\ started = NotStarted
    /\ base_estimator = DEFAULT_BASE_ESTIMATOR
    /\ no_weight_support = FALSE
    /\ use_random_seed = FALSE
    /\ random_seed = 0
    /\ algorithm_index = 1
    /\ loss_index = 0
    /\ learner = NoLearner
    /\ table = NoTable
    /\ nTables = 0
    /\ data_desc = EmptyDict
    /\ data_attrs = EmptyDict
    /\ same_dict = FALSE
    /\ description = EmptyDict
    /\ threads = {}

\* the widgets with a background task
InitTask == kind \in TaskKinds \cup {"freeviz"} /\ InitWidget /\ DefaultSettings

NextTask ==
    \/ \E d \in {None, nIn + 1} : OWOutliers_set_data(d)
    \/ \E d \in {None, nIn + 1} : OWDistances_set_data(d)
    \/ \E d \in {None, nIn + 1}, tm \in {None, 1} : OWTransform_apply(d, tm)
    \/ setting_changed
    \/ ApplyClicked
    \/ AutoToggled
    \/ onDeleteWidget
    \/ \E t \in TaskIds : WorkerBegin(t)
    \/ \E t \in TaskIds : WorkerCompute(t)
    \/ \E t \in TaskIds : WorkerCallback(t)
    \/ \E t \in TaskIds : TaskDone(t)
    \/ \E d \in {None, 1}, inv \in BOOLEAN, a \in Anchors : OWFreeViz_set_data(d, inv, a)
    \/ \E b \in BOOLEAN : gravity_changed(b)
    \/ \E a \in Anchors : init_combo_changed(a)
    \/ toggle_run
    \/ \E a \in Anchors : manual_move(a)
    \/ OWFreeViz_onDeleteWidget
    \/ \E t \in TaskIds : on_partial_result(t)
    \/ \E t \in TaskIds : FvTaskDone(t)
    \/ \E t \in TaskIds : FvBegin(t)
    \/ \E t \in TaskIds : FvFit(t)
    \/ \E t \in TaskIds : FvPublish(t)
    \/ \E t \in TaskIds : FvCheck(t)

\* the widgets with a data input
InitWidgets == kind \in TaskKinds \cup SyncKinds /\ InitWidget /\ DefaultSettings

NextWidgets ==
    \/ \E d \in {None, nIn + 1} : OWOutliers_set_data(d)
    \/ \E d \in {None, nIn + 1} : OWDistances_set_data(d)
    \/ \E d \in {None, nIn + 1}, tm \in {None, 1} : OWTransform_apply(d, tm)
    \/ setting_changed
    \/ ApplyClicked
    \/ AutoToggled
    \/ onDeleteWidget
    \/ \E t \in TaskIds : WorkerBegin(t)
    \/ \E t \in TaskIds : WorkerCompute(t)
    \/ \E t \in TaskIds : WorkerCallback(t)
    \/ \E t \in TaskIds : TaskDone(t)
    \/ \E d \in {None, nIn + 1} : OWRandomize_set_data(d)
    \/ \E d \in {None, nIn + 1} : OWDistanceTransformation_set_data(d)
    \/ \E d \in {None, nIn + 1} : OWAggregateColumns_set_data(d)
    \/ \E d \in {None, nIn + 1} : OWCalibrationPlot_set_results(d)
    \/ \E d \in {None, nIn + 1}, r \in {None, 1} : OWNeighbors_handleNewSignals(d, r)
    \/ \E d \in {None, nIn + 1} : OWPurgeDomain_setData(d)
    \/ \E d \in {None, nIn + 1} : OWDataSampler_set_data(d)
    \/ OWDataSampler_settings_changed
    \/ use_seed_changed
    \/ \E i \in SamplingTypes : sampling_type_changed(i)
    \/ \E n \in MinFolds..MaxFolds : number_of_folds_changed(n)
    \/ \E f \in 1..MaxFolds : fold_changed(f)
    \/ OWDataSampler_commit
    \/ control_changed
    \/ apply_clicked
    \/ auto_toggled
    \/ \E d \in {None, nIn + 1} : OWManifoldLearning_set_data(d)
    \/ OWManifoldLearning_settings_changed
    \/ \E raises \in BOOLEAN : manifold_commit_returns(raises)
    \/ event_posted
    \/ \E d \in {None} \cup DomIds : OWSelectAttributes_set_data(d)
    \/ \E f \in {<< >>, <<"x">>} : OWSelectAttributes_set_features(f)
    \/ use_features_changed
    \/ \E src, dst \in MoveRoles, i \in 1..MaxListed : move_from_to(src, dst, i)
    \/ \E role \in MoveRoles, i \in 1..MaxListed : move_rows(role, i)
    \/ reset
    \/ ignore_new_features_changed

SpecWidgets == InitWidgets /\ [][NextWidgets]_vars

\* OWDataSampler, in a new workflow or in one stored by an older version
InitSampler == kind = "sampler" /\ InitWidget /\ compatibility_mode \in BOOLEAN

NextSampler ==
    \/ \E d \in {None, nIn + 1} : OWDataSampler_set_data(d)
    \/ OWDataSampler_settings_changed
    \/ use_seed_changed
    \/ \E i \in SamplingTypes : sampling_type_changed(i)
    \/ \E n \in MinFolds..MaxFolds : number_of_folds_changed(n)
    \/ \E f \in 1..MaxFolds : fold_changed(f)
    \/ OWDataSampler_commit

SpecSampler == InitSampler /\ [][NextSampler]_vars

\* the datasets OWDistances receives: small, with too many rows, with too
\* many columns for Mahalanobis
DistData == {1, 2, 3}

\* OWDistances with its metrics
InitDistances == kind = "distances" /\ InitWidget /\ DefaultSettings

NextDistances ==
    \/ \E d \in {None} \cup DistData : OWDistances_set_data(d)
    \/ \E id \in MetricIds : metric_changed(id)
    \/ \E ax \in {0, 1} : axis_changed(ax)
    \/ ApplyClicked
    \/ AutoToggled
    \/ onDeleteWidget
    \/ \E t \in TaskIds : WorkerBegin(t)
    \/ \E t \in TaskIds : WorkerCompute(t)
    \/ \E t \in TaskIds : WorkerCallback(t)
    \/ \E t \in TaskIds : TaskDone(t)

SpecDistances == InitDistances /\ [][NextDistances]_vars

\* OWAdaBoost with its settings and its input
InitAdaBoost == kind = "adaboost" /\ InitWidget /\ DefaultSettings

NextAdaBoost ==
    \/ \E l \in InputLearners : OWAdaBoost_set_base_learner(l)
    \/ use_random_seed_changed
    \/ \E v \in 0..MaxSeed : random_seed_changed(v)
    \/ \E i \in 0..1 : algorithm_changed(i)
    \/ \E i \in 0..2 : loss_changed(i)

SpecAdaBoost == InitAdaBoost /\ [][NextAdaBoost]_vars

\* OWDataInfo with its threads
InitDataInfo == kind = "datainfo" /\ InitWidget /\ DefaultSettings

NextDataInfo ==
    \/ \E d \in {NoTable} \cup Tables : OWDataInfo_data(d)
    \/ \E d \in Tables : set_exact_length(d)

SpecDataInfo == InitDataInfo /\ [][NextDataInfo]_vars

SpecTask == InitTask /\ [][NextTask]_vars

\* one step of the thread that runs task t
WorkerStep(t) ==
    \/ WorkerBegin(t) \/ WorkerCompute(t) \/ WorkerCallback(t)
    \/ FvBegin(t) \/ FvFit(t) \/ FvPublish(t) \/ FvCheck(t)

\* the executor's threads are scheduled fairly
SpecTaskFair == SpecTask /\ \A t \in TaskIds : WF_vars(WorkerStep(t))

(* -------------------------------- claims -------------------------------- *)
Calls(t) == calls[t].done + calls[t].exc

Ended(t) == tasks[t].st \in {"done", "cancelled"}

C2_NoStaleResults ==
    kind \in TaskKinds =>
        /\ Cardinality({t \in TaskIds : tasks[t].conn /\ Calls(t) = 0}) <= 1
        /\ \A t \in TaskIds :
              (tasks[t].st # "idle" /\ tasks[t].inSeq < nIn) =>
                  (tasks[t].intr \/ Calls(t) = 1)
        /\ out.fromIn = out.atIn

\* the task of the first dataset ran to its end after the second dataset
\* arrived, and what was sent is the result for the second dataset
C2_Witness ==
    /\ kind \in TaskKinds
    /\ out.val = 2
    /\ \E t \in TaskIds :
          tasks[t].inSeq = 1 /\ tasks[t].arg = 1 /\ tasks[t].st = "done"
          /\ tasks[t].outcome = "ok" /\ tasks[t].intr

\* C3: a worker that reaches its check after interruption was requested
\* stops there without computing more (run of OWOutliers and
\* DistanceRunner.run raise, run_freeviz returns its result), and with the
\* worker threads scheduled fairly every task for which interruption was
\* requested terminates
C3_CooperativeCancellation ==
    /\ [][\A t \in TaskIds :
            (tasks[t].intr /\ tasks[t].st = "check" /\ tasks'[t].st # "check") =>
                /\ tasks'[t].st = "done"
                /\ tasks'[t].work = tasks[t].work
                /\ tasks'[t].outcome = IF kind = "freeviz" THEN "ok" ELSE "exc"]_vars
    /\ \A t \in TaskIds : tasks[t].intr ~> Ended(t)

\* a task was cancelled while it computed and raised at the callback that
\* followed the computation
C3_Witness ==
    \E t \in TaskIds :
        /\ kind \in {"outliers", "distances"}
        /\ tasks[t].intr /\ tasks[t].st = "done"
        /\ tasks[t].outcome = "exc" /\ tasks[t].work = 1

\* what a GUI handler does to the projector in this step
GuiWritesProjector ==
    \/ \E b \in BOOLEAN : gravity_changed(b)
    \/ \E a \in Anchors : manual_move(a)

\* C4: no GUI-thread handler writes gravity, initial or components_ of a
\* projector while a worker thread is inside run_freeviz with it
C4_NoWriteWhileRunning ==
    [][GuiWritesProjector => ~(wproj # None /\ Racing(wproj))]_vars

\* C6: at the interruption test and when run_freeviz returns, the projection
\* of the iteration has been published as a partial result, and at most one
\* partial result is published after interruption was requested
C6_PartialResults ==
    \A t \in TaskIds :
        /\ (tasks[t].st = "check" \/ (tasks[t].st = "done" /\ tasks[t].outcome = "ok"))
               => ~tasks[t].unpub
        /\ tasks[t].late <= 1

\* run_freeviz was interrupted inside an iteration, published that
\* iteration's result and returned
C6_Witness ==
    \E t \in TaskIds :
        /\ kind = "freeviz"
        /\ tasks[t].st = "done" /\ tasks[t].outcome = "ok"
        /\ tasks[t].intr /\ tasks[t].late = 1

\* the coordinates the widget's projection shows
Shown == ContentIn(proj, wproj, wprojection)

\* C10 (as stated): what on_partial_result reads from the result is the
\* projection of the iteration that published it
C10_ReadsPublishingIteration ==
    [][\A t \in TaskIds :
          on_partial_result(t) => ContentIn(proj', wproj', wprojection') = Head(tasks[t].pq)]_vars

\* C10 (amended): a projection the widget took from a result is a copy: as
\* long as the widget keeps it, what it shows does not change, whatever the
\* worker threads and the handlers do to the projector; and on_partial_result
\* reads the projection the result holds when the handler runs
C10_HandedProjectionIsStable ==
    [][/\ (wprojection.own = "task" /\ wprojection' = wprojection)
            => ContentIn(proj', wproj', wprojection') = Shown
       /\ \A t \in TaskIds :
            on_partial_result(t) =>
                /\ wprojection' = tasks[t].res
                /\ ~wprojection'.live]_vars

\* the widget shows the projection of a partial result while the worker that
\* made it is in a later iteration with other anchors
C10_Witness ==
    \E t \in TaskIds :
        /\ wprojection.own = "task"
        /\ tasks[t].pj = wproj
        /\ tasks[t].st = "publish"
        /\ proj[wproj].comps # Shown

\* C5 (as stated): the GUI thread never computes the embedding inside
\* commit, and the result of a computation during which an input or a change
\* arrived is not sent
C5_EmbeddingOffGuiThread ==
    /\ [](kind = "manifold" => ~busy)
    /\ [][(busy /\ waiting) => out' = out]_vars

\* the outputs show what commit computes from the inputs and the controls
Current ==
    /\ out.val = commit_value(kind, data, template)
    /\ out.val # None => out.set = setting

\* a new input was handled in this step
InputStep == nIn' = nIn + 1

\* the deferred commit: without a commit waiting the outputs are current,
\* with auto-apply on no commit waits; a changed control recomputes at once
\* with auto-apply on and sends nothing with it off; Apply runs commit once
DeferredCommit ==
    /\ [](kind \in DeferredKinds => /\ ~dirty => Current
                                    /\ auto => ~dirty)
    /\ [][/\ (control_changed /\ auto) => (ran' = 1 /\ Current')
          /\ (control_changed /\ ~auto) => (ran' = 0 /\ out' = out /\ dirty')
          /\ apply_clicked => (ran' = 1 /\ ~dirty' /\ Current')]_vars

C8_NoInputNoOutput ==
    (kind \in TaskKinds \cup SyncKinds /\ data = None /\ task = None /\ ~busy /\ ~deleted)
        => out.val = None

\* the second input removed the data after a result for the first was sent
C8_Witness ==
    /\ nIn = 2 /\ data = None /\ task = None /\ ~busy /\ ~deleted
    /\ out.val = None /\ out.atIn = 2

\* every variable of the domain is in exactly one list, once
Partition(ls, d) ==
    /\ Listed(ls) = Len(attributes(d))
    /\ \A i \in 1..Len(attributes(d)) :
          In(ls.available \o ls.attribute \o ls.class \o ls.meta, attributes(d)[i])

SamplerCommits ==
    \/ OWDataSampler_commit
    \/ \E d \in {None, nIn + 1} : OWDataSampler_set_data(d)

\* the outputs hold out the selected fold: the remaining data are its rows,
\* the data sample all the other rows (the other way round in compatibility
\* mode)
HeldOut ==
    /\ indices.shape = "folds"
    /\ selectedFold <= Len(indices.folds)
    /\ LET fold == indices.folds[selectedFold][2]
           others == Rows(data) \ fold
       IN  IF compatibility_mode
           THEN data_sample = SentTable(fold) /\ remaining_data = SentTable(others)
           ELSE data_sample = SentTable(others) /\ remaining_data = SentTable(fold)

\* C11 (as stated): when commit has run in cross-validation mode on data
\* with at least as many rows as folds, the data sample holds every row
\* except those of the selected fold and the remaining data exactly the rows
\* of the selected fold; in compatibility mode the two are swapped
C11_FoldHeldOut ==
    [][(SamplerCommits /\ data' # None /\ sampling_type = CrossValidation
            /\ len(data') >= number_of_folds) => HeldOut']_vars

\* self.indices was computed for the current data and settings and has the
\* form commit unpacks in the current mode
IndicesMatch ==
    /\ indices.forData = data
    /\ indices.forType = sampling_type
    /\ IF sampling_type = CrossValidation
       THEN /\ indices.shape = "folds"
            /\ Len(indices.folds) = number_of_folds
            /\ indices.forFolds = number_of_folds
            /\ selectedFold \in 1..number_of_folds
       ELSE indices.shape = "pair"

\* C12 (as stated): whenever commit unpacks self.indices, they were computed
\* for the current data, sampling_type and number_of_folds: a tuple of
\* number_of_folds (train, test) pairs with 1 <= selectedFold <=
\* number_of_folds in cross-validation mode, one (remaining, sample) pair in
\* every other mode
C12_IndicesMatchSettings ==
    [][(SamplerCommits /\ data' # None /\ indices'.shape # "none") => IndicesMatch']_vars

\* C13 (as stated): every variable of the current input data occurs in
\* exactly one of the four lists of OWSelectAttributes, exactly once, and the
\* lists hold no other variable (no variable at all without data)
C13_ListsPartitionDomain ==
    kind = "select" =>
        IF data = None THEN lists = NoLists ELSE Partition(lists, data)

\* the class in Orange.distance that the name of a metric states
NamedMetric(id) ==
    CASE id \in {Euclidean, EuclideanNormalized} -> "Euclidean"
      [] id \in {Manhattan, ManhattanNormalized} -> "Manhattan"
      [] id = Cosine -> "Cosine"
      [] id = Mahalanobis -> "Mahalanobis"
      [] id = Hamming -> "Hamming"
      [] id = Pearson -> "PearsonR"
      [] id = PearsonAbsolute -> "PearsonRAbsolute"
      [] id = Spearman -> "SpearmanR"
      [] id = SpearmanAbsolute -> "SpearmanRAbsolute"
      [] OTHER -> "Jaccard"

\* C14 (as stated): the task of OWDistances is started with the metric class
\* of the name of the chosen metric (Spearman with SpearmanR, absolute
\* Spearman with SpearmanRAbsolute), and with normalize for the two
\* normalized entries only
C14_MetricOfItsName ==
    (kind = "distances" /\ started # NotStarted) =>
        /\ started.metric = NamedMetric(started.id)
        /\ started.normalize = (started.id \in {EuclideanNormalized, ManhattanNormalized})

\* C15 (as stated): with Mahalanobis, data with more than 1000 rows is
\* refused (error naming rows) when distances are computed between columns,
\* and data with more than 1000 columns (error naming columns) when they are
\* computed between rows; the task is then started with no data
C15_MahalanobisTractability ==
    (kind = "distances" /\ started.id = Mahalanobis /\ started.input # None) =>
        /\ (started.axis = 1 /\ n_rows(started.input) > MahalanobisLimit)
               => (started.error = "rows" /\ started.data = None)
        /\ (started.axis = 0 /\ n_columns(started.input) > MahalanobisLimit)
               => (started.error = "columns" /\ started.data = None)

\* C16 (as stated): the learner of OWAdaBoost has a fixed random_state only
\* when use_random_seed is true; when it is false the learner has no fixed
\* random_state, whatever random_seed is
C16_SeedOnlyWhenChecked ==
    (kind = "adaboost" /\ learner.is = "AdaBoost") =>
        learner.random_state =
            IF use_random_seed THEN [fixed |-> TRUE, seed |-> random_seed]
            ELSE [fixed |-> FALSE, seed |-> 0]

\* C17 (as stated): after a base learner without weight support arrived,
\* no_weight_support is shown, the base learner is the default one and
\* create_learner returns an AdaBoost learner; after the input learner was
\* removed the default base learner is used and the error is not shown
C17_InvalidBaseLearner ==
    [][\A l \in InputLearners :
        (OWAdaBoost_set_base_learner(l) /\ ~supports_weights(l)) =>
            /\ no_weight_support' = (l = "unweighted")
            /\ base_estimator' = DEFAULT_BASE_ESTIMATOR
            /\ learner'.is = "AdaBoost"]_vars

\* C18 (as stated): data_desc and the label describe the current input: the
\* size in them is that of the table on the input, and with no table on the
\* input they are empty
C18_DescribesCurrentInput ==
    kind = "datainfo" =>
        /\ data_desc.size.of = table.id
        /\ description.size.of = table.id
        /\ table = NoTable => (data_desc = EmptyDict /\ description = EmptyDict)

====
